---- MODULE Spec2Model ----
(***************************************************************************)
(* Admission and dispatch layer of the Intric MCP template server          *)
(* (src/server.py, src/resources.py, src/generate_token.py).               *)
(*                                                                         *)
(* Optional values (Python None) are sequences of length 0 or 1.           *)
(* A URI "scheme://a/b" is [scheme |-> "scheme", path |-> <<"a", "b">>];   *)
(* a registered URI pattern has segments [ph |-> BOOLEAN, text |-> s],     *)
(* ph = TRUE for a placeholder "{s}".                                      *)
(* Time is counted in days since the epoch.                                *)
(***************************************************************************)
EXTENDS Integers, Sequences, FiniteSets, TLC

VARIABLES
    ALLOWED_IPS,   \* server.py:62, the configured allowlist
    issuer,        \* MCP_SERVER_JWT_ISSUER ("" when unset)
    audience,      \* MCP_SERVER_JWT_AUDIENCE ("" when unset)
    pc,            \* next startup statement of server.py (see Statements)
    registry,      \* entries registered on mcp, in registration order
    routes,        \* custom routes registered on mcp
    gate,          \* the IPAllowlistMiddleware instance, <<>> before http_app
    requests,      \* the request handled in each connection slot
    faulted,       \* history: some payload has raised
    now,           \* current day
    advances,      \* number of clock advances so far
    token,         \* the credential last produced (generate_token.py or a forger)
    verdict        \* result of the last verification of token

vars == <<ALLOWED_IPS, issuer, audience, pc, registry, routes, gate, requests,
          faulted, now, advances, token, verdict>>

(* ------------------------------ bounds -------------------------------- *)

MaxInFlight == 1
MaxAdvances == 3

(* --------------------------- configuration ---------------------------- *)

None == <<>>
Some(x) == <<x>>
IsNone(o) == Len(o) = 0

Wildcard == "*"

\* Values the operator may put in ALLOWED_IPS; {"*"} is the shipped one.
AllowlistConfigs == { {"*"}, {"10.0.0.1"}, {"10.0.0.1", "*"} }

\* request.client: None, or an address with a host.
Clients == { None, Some([host |-> "10.0.0.1"]), Some([host |-> "10.0.0.2"]) }

JwtSecret == "shared-secret"
OtherKey == "attacker-key"
PinnedAlgorithm == "HS256"
Algorithms == {"HS256", "HS512"}
IssuerConfigs == {"", "intric"}
AudienceConfigs == {"", "mcp"}
Absent == "<absent>"
TokenLifetimeDays == 365
AdvanceSteps == {1, TokenLifetimeDays - 1}

(* ---------------------------- credentials ----------------------------- *)

\* An ideal MAC: the tag determines algorithm, key and signed message.
Sign(alg, key, payload) == [alg |-> alg, key |-> key, msg |-> payload]

\* jwt.encode(payload, secret, algorithm=...)
Encode(payload, key, alg) ==
    [header |-> [alg |-> alg], payload |-> payload, sig |-> Sign(alg, key, payload)]

\* generate_token.py: the payload built at day t under the environment (iss, aud).
GeneratorPayload(t, iss, aud) ==
    [sub |-> "test-user",
     iat |-> t,
     exp |-> t + TokenLifetimeDays,
     iss |-> IF iss # "" THEN iss ELSE Absent,
     aud |-> IF aud # "" THEN aud ELSE Absent]

GeneratedToken(t, iss, aud) == Encode(GeneratorPayload(t, iss, aud), JwtSecret, "HS256")

\* The verifier of server.py:20-25 with the algorithm pin left out (fault injection).
VerifierAnyAlgorithm ==
    [public_key |-> JwtSecret, issuer |-> issuer, audience |-> audience,
     algorithms |-> Algorithms]

\* server.py:20-25: JWTVerifier(public_key=..., issuer=..., audience=..., algorithm="HS256")
verifier ==
    [public_key |-> JwtSecret, issuer |-> issuer, audience |-> audience,
     algorithms |-> {PinnedAlgorithm}]

\* The expiry test with the comparison turned round (fault injection).
ExpiredWrongWay(payload, t) == payload.exp > t

\* A credential is expired when its exp lies before the verification day.
Expired(payload, t) == payload.exp < t

\* verifier.verify_token(tok) at day t: the AuthContext, or None.
verify_token(tok, t) ==
    IF /\ tok.header.alg \in verifier.algorithms
       /\ tok.sig = Sign(tok.header.alg, verifier.public_key, tok.payload)
       /\ ~Expired(tok.payload, t)
       /\ (verifier.issuer # "" => tok.payload.iss = verifier.issuer)
       /\ (verifier.audience # "" => tok.payload.aud = verifier.audience)
    THEN Some([subject |-> tok.payload.sub, claims |-> tok.payload,
               expires_at |-> tok.payload.exp])
    ELSE None

(* ------------------------------ values -------------------------------- *)

IntV(n) == [type |-> "int", val |-> n]
StrV(s) == [type |-> "str", val |-> s]
NoArgs == [x \in {} |-> StrV("")]
NoMeta == [x \in {} |-> TRUE]

Lit(s) == [ph |-> FALSE, text |-> s]
Ph(s) == [ph |-> TRUE, text |-> s]
Param(n, t, r) == [name |-> n, type |-> t, required |-> r]

(* ------------------------ startup statements -------------------------- *)

\* The statements of server.py that build the server, in file order.
\* fn is the decorated function; name, uri and meta are the decorator arguments
\* (name None: not given); params is the function's parameter list.
Statements == <<
    [op |-> "tool", fn |-> "add_two_numbers", name |-> None, meta |-> NoMeta,
     params |-> {Param("a", "int", TRUE), Param("b", "int", TRUE)}],
    [op |-> "tool", fn |-> "addition_implementation", name |-> Some("add_two_numbers_v2"),
     meta |-> NoMeta, params |-> {Param("a", "int", TRUE), Param("b", "int", TRUE)}],
    [op |-> "tool", fn |-> "tool_without_permission", name |-> None,
     meta |-> [requires_permission |-> FALSE], params |-> {}],
    [op |-> "tool", fn |-> "divide_two_numbers", name |-> None, meta |-> NoMeta,
     params |-> {Param("a", "int", TRUE), Param("b", "int", TRUE)}],
    [op |-> "resource", fn |-> "get_hello_world", name |-> None, meta |-> NoMeta,
     uri |-> [scheme |-> "resource", path |-> <<Lit("hello_world")>>], params |-> {}],
    [op |-> "resource", fn |-> "get_hello_world_v2", name |-> Some("Greetings Resource"),
     meta |-> NoMeta,
     uri |-> [scheme |-> "resource", path |-> <<Lit("hello_world_v2")>>], params |-> {}],
    [op |-> "resource", fn |-> "get_hello_world_v2_with_permission",
     name |-> Some("Greetings Resource with Permission"),
     meta |-> [requires_permission |-> TRUE],
     uri |-> [scheme |-> "resource", path |-> <<Lit("hello_world_v2_with_permission")>>],
     params |-> {}],
    [op |-> "resource", fn |-> "tell_a_joke", name |-> None, meta |-> NoMeta,
     uri |-> [scheme |-> "resource", path |-> <<Lit("tell_a_joke")>>], params |-> {}],
    [op |-> "resource", fn |-> "get_current_weather", name |-> None, meta |-> NoMeta,
     uri |-> [scheme |-> "weather", path |-> <<Ph("city"), Lit("current")>>],
     params |-> {Param("city", "str", TRUE)}],
    [op |-> "resource", fn |-> "get_past_weather", name |-> None, meta |-> NoMeta,
     uri |-> [scheme |-> "weather", path |-> <<Ph("city"), Ph("date"), Lit("past_weather")>>],
     params |-> {Param("city", "str", TRUE), Param("date", "str", TRUE)}],
    [op |-> "prompt", fn |-> "code_review", name |-> None, meta |-> NoMeta, params |-> {}],
    [op |-> "prompt", fn |-> "summarize_text", name |-> None, meta |-> NoMeta,
     params |-> {Param("style", "str", FALSE)}],
    [op |-> "prompt", fn |-> "debug_helper", name |-> Some("debug_error"), meta |-> NoMeta,
     params |-> {Param("error_message", "str", TRUE)}],
    [op |-> "route", fn |-> "health_check", path |-> "/health", methods |-> {"GET"}],
    [op |-> "app"] >>

Serving == pc > Len(Statements)

(* ------------------------------ payloads ------------------------------ *)

Returned(v) == [raised |-> FALSE, value |-> v]
Raised(e) == [raised |-> TRUE, value |-> e]

\* tools.divide_two_numbers: the quotient of a by b; a zero divisor raises.
divide_two_numbers(a, b) ==
    IF b = 0 THEN Raised("ZeroDivisionError") ELSE Returned([num |-> a, den |-> b])

\* server.py:225-233
summarize_text(args) ==
    LET styles == [brief |-> "Provide a 1-2 sentence summary.",
                   detailed |-> "Provide a comprehensive summary covering all key points.",
                   bullets |-> "Summarize as a bulleted list of key points."]
        style == IF "style" \in DOMAIN args THEN args["style"].val ELSE "brief"
    IN  <<"Summarize the following text.",
          IF style \in DOMAIN styles THEN styles[style] ELSE styles["brief"]>>

\* The registered functions, applied to validated arguments.
Apply(fn, args) ==
    CASE fn = "add_two_numbers" -> Returned(args["a"].val + args["b"].val)
      [] fn = "addition_implementation" -> Returned(args["a"].val + args["b"].val)
      [] fn = "tool_without_permission" ->
            Returned("Hello, from Intric MCP Template Server! (without permission)")
      [] fn = "divide_two_numbers" -> divide_two_numbers(args["a"].val, args["b"].val)
      [] fn = "get_hello_world" -> Returned("Hello, from Intric MCP Template Server!")
      [] fn = "get_hello_world_v2" -> Returned("Hello, from Intric MCP Template Server! (v2)")
      [] fn = "get_hello_world_v2_with_permission" ->
            Returned("Hello, from Intric MCP Template Server! (v2 with permission)")
      [] fn = "tell_a_joke" -> Returned("A neutron walks into a bar ...")
      [] fn = "get_current_weather" ->
            Returned([city |-> args["city"].val, temperature |-> 20,
                      description |-> "Sunny", units |-> "C"])
      [] fn = "get_past_weather" ->
            Returned([city |-> args["city"].val, date |-> args["date"].val,
                      temperature |-> 15, description |-> "Cloudy", units |-> "C"])
      [] fn = "code_review" -> Returned("Please review the following code ...")
      [] fn = "summarize_text" -> Returned(summarize_text(args))
      [] fn = "debug_helper" ->
            Returned(<<"I encountered the following error:", args["error_message"].val>>)

(* ------------------------------ registry ------------------------------ *)

FnOrName(stmt) == IF IsNone(stmt.name) THEN stmt.fn ELSE stmt.name[1]

\* mcp.tool with the meta argument dropped (fault injection).
ToolEntryNoMeta(stmt) ==
    [kind |-> "Tool", name |-> FnOrName(stmt), uri |-> None, fn |-> stmt.fn,
     meta |-> NoMeta, params |-> stmt.params]

\* mcp.tool / mcp.tool(name=..., meta=...)(fn)
ToolEntry(stmt) ==
    [kind |-> "Tool", name |-> FnOrName(stmt), uri |-> None, fn |-> stmt.fn,
     meta |-> stmt.meta, params |-> stmt.params]

HasPlaceholder(pattern) == \E i \in DOMAIN pattern.path : pattern.path[i].ph

\* mcp.resource(uri, name=..., meta=...)(fn): a template when the URI has
\* placeholders or the function takes parameters, else a resource.
ResourceEntry(stmt) ==
    [kind |-> IF HasPlaceholder(stmt.uri) \/ stmt.params # {}
              THEN "ResourceTemplate" ELSE "Resource",
     name |-> FnOrName(stmt), uri |-> Some(stmt.uri), fn |-> stmt.fn,
     meta |-> stmt.meta, params |-> stmt.params]

\* mcp.prompt(name=...)(fn)
PromptEntry(stmt) ==
    [kind |-> "Prompt", name |-> FnOrName(stmt), uri |-> None, fn |-> stmt.fn,
     meta |-> stmt.meta, params |-> stmt.params]

\* The concrete URI a pattern without placeholders denotes.
Literal(pattern) ==
    [scheme |-> pattern.scheme,
     path |-> [i \in DOMAIN pattern.path |-> pattern.path[i].text]]

\* Template matching that stops at the end of the pattern (fault injection).
MatchesPrefix(pattern, uri) ==
    /\ pattern.scheme = uri.scheme
    /\ Len(pattern.path) <= Len(uri.path)
    /\ \A i \in DOMAIN pattern.path :
          IF pattern.path[i].ph THEN uri.path[i] # ""
                                ELSE pattern.path[i].text = uri.path[i]

\* A template matches a URI when every literal segment is equal and every
\* placeholder stands against one non-empty segment (a placeholder never
\* spans a "/").
Matches(pattern, uri) ==
    /\ pattern.scheme = uri.scheme
    /\ Len(pattern.path) = Len(uri.path)
    /\ \A i \in DOMAIN pattern.path :
          IF pattern.path[i].ph THEN uri.path[i] # ""
                                ELSE pattern.path[i].text = uri.path[i]

PlaceholderNames(pattern) ==
    { pattern.path[i].text : i \in { j \in DOMAIN pattern.path : pattern.path[j].ph } }

\* The placeholder bindings of a matching URI.
Bindings(pattern, uri) ==
    [n \in PlaceholderNames(pattern) |->
        StrV(uri.path[CHOOSE i \in DOMAIN pattern.path :
                        pattern.path[i].ph /\ pattern.path[i].text = n])]

\* The pattern with its placeholders replaced by their bindings.
Substitute(pattern, b) ==
    [scheme |-> pattern.scheme,
     path |-> [i \in DOMAIN pattern.path |->
                 IF pattern.path[i].ph THEN b[pattern.path[i].text].val
                                       ELSE pattern.path[i].text]]

Found(i, b) == Some([index |-> i, bindings |-> b])

\* Lookup by name among the entries of one kind; a later registration of the
\* same name replaces an earlier one.
ResolveByName(reg, kind, name) ==
    LET hits == { i \in DOMAIN reg : reg[i].kind = kind /\ reg[i].name = name }
    IN  IF hits = {} THEN None
        ELSE Found(CHOOSE i \in hits : \A j \in hits : j <= i, NoArgs)

\* resources/read: an exact resource first, else the first registered
\* template that matches.
ResolveUri(reg, uri) ==
    LET exact == { i \in DOMAIN reg :
                     reg[i].kind = "Resource" /\ Literal(reg[i].uri[1]) = uri }
        templ == { i \in DOMAIN reg :
                     reg[i].kind = "ResourceTemplate" /\ Matches(reg[i].uri[1], uri) }
    IN  IF exact # {}
        THEN Found(CHOOSE i \in exact : \A j \in exact : j <= i, NoArgs)
        ELSE IF templ # {}
        THEN LET i == CHOOSE k \in templ : \A j \in templ : k <= j
             IN  Found(i, Bindings(reg[i].uri[1], uri))
        ELSE None

Resolve(reg, target) ==
    CASE target.method = "tools/call" -> ResolveByName(reg, "Tool", target.name)
      [] target.method = "prompts/get" -> ResolveByName(reg, "Prompt", target.name)
      [] target.method = "resources/read" -> ResolveUri(reg, target.uri)

\* server.py:133-135, 171-174: the meta key when given; otherwise tools ask for
\* permission and resources and resource templates do not.
EffectivePermission(entry) ==
    IF "requires_permission" \in DOMAIN entry.meta
    THEN entry.meta["requires_permission"]
    ELSE entry.kind = "Tool"

ParamNames(entry) == { p.name : p \in entry.params }

\* Arguments fit an entry when every required parameter is given, nothing
\* else is, and each value has the declared type.
ValidInput(entry, args) ==
    /\ \A p \in entry.params : p.required => p.name \in DOMAIN args
    /\ DOMAIN args \subseteq ParamNames(entry)
    /\ \A p \in entry.params : p.name \in DOMAIN args => args[p.name].type = p.type

(* ---------------------------- network gate ---------------------------- *)

\* IPAllowlistMiddleware.__init__
IPAllowlistMiddleware(allowed) ==
    [allowed_ips |-> allowed, allow_all |-> Wildcard \in allowed]

\* client_ip = request.client.host if request.client else None
client_ip(client) == IF IsNone(client) THEN None ELSE Some(client[1].host)

\* Python's "x in s" for an optional string and a set of strings.
InSet(x, S) == ~IsNone(x) /\ x[1] \in S

\* The gate without its wildcard shortcut (fault injection).
AdmitNoWildcard(mw, client) == InSet(client_ip(client), mw.allowed_ips)

\* IPAllowlistMiddleware.dispatch: TRUE when the request is passed on.
Admit(mw, client) ==
    \/ mw.allow_all
    \/ InSet(client_ip(client), mw.allowed_ips)

\* A rejection that also lists the allowlist (fault injection).
ForbiddenResponseLeaking(mw, ip) ==
    [status_code |-> 403,
     content |-> [error |-> "Forbidden", your_ip |-> ip,
                  allowed |-> mw.allowed_ips]]

\* JSONResponse(status_code=403, content={"error": "Forbidden", "your_ip": client_ip})
ForbiddenResponse(mw, ip) ==
    [status_code |-> 403, content |-> [error |-> "Forbidden", your_ip |-> ip]]

(* ------------------------------ requests ------------------------------ *)

Slots == 1..MaxInFlight

NoUri == [scheme |-> "", path |-> <<>>]
ToolCall(n) == [method |-> "tools/call", name |-> n, uri |-> NoUri]
PromptGet(n) == [method |-> "prompts/get", name |-> n, uri |-> NoUri]
Read(sc, p) == [method |-> "resources/read", name |-> "", uri |-> [scheme |-> sc, path |-> p]]

\* What a caller may ask for.
Targets ==
    { ToolCall("add_two_numbers"), ToolCall("tool_without_permission"),
      ToolCall("divide_two_numbers"), ToolCall("no_such_tool"),
      PromptGet("summarize_text"),
      Read("resource", <<"hello_world">>),
      Read("resource", <<"hello_world_v2_with_permission">>),
      Read("weather", <<"london", "current">>),
      Read("weather", <<"london", "2024-01-01", "past_weather">>),
      Read("weather", <<"london", "current", "past_weather">>),
      Read("weather", <<"", "current">>),
      Read("weather", <<"london">>) }

\* The argument objects a caller may send with tools/call and prompts/get.
Arguments ==
    { NoArgs,
      [a |-> IntV(4), b |-> IntV(2)],
      [a |-> IntV(4), b |-> IntV(0)],
      [a |-> IntV(4)],
      [style |-> StrV("bullets")] }

\* The Authorization header a caller may send at day t: none, the generator's
\* token, one signed under another algorithm, an expired one, a forged one.
Credentials(t) ==
    LET p == GeneratorPayload(t, issuer, audience)
    IN  { None,
          Some(Encode(p, JwtSecret, "HS256")),
          Some(Encode(p, JwtSecret, "HS512")),
          Some(Encode([p EXCEPT !.exp = t - 1], JwtSecret, "HS256")),
          Some(Encode(p, OtherKey, "HS256")) }

IdleRequest ==
    [st |-> "Idle", route |-> "", cred |-> None, user |-> None, client |-> None,
     gated |-> FALSE, target |-> ToolCall(""), found |-> None,
     requires_permission |-> None, args |-> NoArgs, outcome |-> "",
     response |-> None, trace |-> <<>>]

Finish(r, outcome, response, stage) ==
    [r EXCEPT !.st = "Done", !.outcome = outcome, !.response = Some(response),
              !.trace = Append(r.trace, stage)]

Envelope(status, body) == [status |-> status, body |-> body]

(* ------------------------------ startup ------------------------------- *)

ConfigUnchanged == UNCHANGED <<ALLOWED_IPS, issuer, audience>>
ClockUnchanged == UNCHANGED <<now, advances, token, verdict>>

RegisterTool ==
    /\ pc <= Len(Statements) /\ Statements[pc].op = "tool"
    /\ registry' = Append(registry, ToolEntry(Statements[pc]))
    /\ pc' = pc + 1
    /\ ConfigUnchanged /\ ClockUnchanged
    /\ UNCHANGED <<routes, gate, requests, faulted>>

RegisterResource ==
    /\ pc <= Len(Statements) /\ Statements[pc].op = "resource"
    /\ registry' = Append(registry, ResourceEntry(Statements[pc]))
    /\ pc' = pc + 1
    /\ ConfigUnchanged /\ ClockUnchanged
    /\ UNCHANGED <<routes, gate, requests, faulted>>

RegisterPrompt ==
    /\ pc <= Len(Statements) /\ Statements[pc].op = "prompt"
    /\ registry' = Append(registry, PromptEntry(Statements[pc]))
    /\ pc' = pc + 1
    /\ ConfigUnchanged /\ ClockUnchanged
    /\ UNCHANGED <<routes, gate, requests, faulted>>

\* @mcp.custom_route("/health", methods=["GET"])
RegisterRoute ==
    /\ pc <= Len(Statements) /\ Statements[pc].op = "route"
    /\ routes' = routes \cup {Statements[pc].path}
    /\ pc' = pc + 1
    /\ ConfigUnchanged /\ ClockUnchanged
    /\ UNCHANGED <<registry, gate, requests, faulted>>

\* app = mcp.http_app(middleware=middleware): the middleware is instantiated
\* and the application starts to serve.
http_app ==
    /\ pc <= Len(Statements) /\ Statements[pc].op = "app"
    /\ gate' = Some(IPAllowlistMiddleware(ALLOWED_IPS))
    /\ pc' = pc + 1
    /\ ConfigUnchanged /\ ClockUnchanged
    /\ UNCHANGED <<registry, routes, requests, faulted>>

(* ------------------------- request handling --------------------------- *)

Handled(s, r) ==
    /\ requests' = [requests EXCEPT ![s] = r]
    /\ ConfigUnchanged /\ ClockUnchanged
    /\ UNCHANGED <<pc, registry, routes, gate>>

\* A request arrives on slot s.
Receive(s) ==
    /\ Serving /\ requests[s].st = "Idle"
    /\ \E route \in {"/mcp", "/health"} :
          Handled(s, [IdleRequest EXCEPT !.st = "Received", !.route = route,
                                         !.trace = <<"Received">>])
    /\ UNCHANGED faulted

\* The authentication middleware installed by FastMCP(auth=verifier): it is
\* placed in front of the middleware given to http_app, reads the bearer
\* credential, has the verifier check it and attaches the result.  It rejects
\* nothing itself.
AuthBackend(s) ==
    /\ requests[s].st = "Received"
    /\ \E cred \in Credentials(now) :
          Handled(s, [requests[s] EXCEPT
              !.st = "Scoped",
              !.cred = cred,
              !.user = IF IsNone(cred) THEN None ELSE verify_token(cred[1], now),
              !.trace = IF IsNone(cred) THEN @ ELSE Append(@, "VerifierInvoked")])
    /\ UNCHANGED faulted

\* IPAllowlistMiddleware.dispatch
dispatch(s) ==
    /\ requests[s].st = "Scoped"
    /\ \E client \in Clients :
          LET r == [requests[s] EXCEPT !.client = client, !.gated = TRUE]
          IN  IF Admit(gate[1], client)
              THEN Handled(s, [r EXCEPT !.st = "NetworkChecked",
                                        !.trace = Append(@, "NetworkChecked")])
              ELSE Handled(s, Finish(r, "Forbidden",
                                     ForbiddenResponse(gate[1], client_ip(client)),
                                     "Forbidden"))
    /\ UNCHANGED faulted

\* health_check: PlainTextResponse("OK")
health_check(s) ==
    /\ requests[s].st = "NetworkChecked"
    /\ requests[s].route = "/health" /\ "/health" \in routes
    /\ Handled(s, Finish(requests[s], "OK",
                         [status_code |-> 200, content |-> "OK"], "Health"))
    /\ UNCHANGED faulted

\* The MCP endpoint is served only to an authenticated user.
RequireAuth(s) ==
    /\ requests[s].st = "NetworkChecked"
    /\ requests[s].route = "/mcp"
    /\ IF IsNone(requests[s].user)
       THEN Handled(s, Finish(requests[s], "Unauthorized",
                              Envelope("Unauthorized", "invalid_token"), "Unauthorized"))
       ELSE Handled(s, [requests[s] EXCEPT !.st = "Authenticated",
                                           !.trace = Append(@, "Authenticated")])
    /\ UNCHANGED faulted

\* Lookup of the capability the request names.
ResolveTarget(s) ==
    /\ requests[s].st = "Authenticated"
    /\ \E target \in Targets :
          LET found == Resolve(registry, target)
              r == [requests[s] EXCEPT !.target = target, !.found = found]
          IN  IF IsNone(found)
              THEN Handled(s, Finish(r, "NotFound", Envelope("NotFound", "unknown"),
                                     "NotFound"))
              ELSE Handled(s, [r EXCEPT !.st = "Resolved",
                                        !.trace = Append(@, "Resolved")])
    /\ UNCHANGED faulted

\* The permission requirement of the resolved entry is attached.
Annotate(s) ==
    /\ requests[s].st = "Resolved"
    /\ Handled(s, [requests[s] EXCEPT
          !.st = "PermissionAnnotated",
          !.requires_permission =
              Some(EffectivePermission(registry[requests[s].found[1].index])),
          !.trace = Append(@, "PermissionAnnotated")])
    /\ UNCHANGED faulted

\* A raising payload taken for a success (fault injection).
InvocationEnvelopeSwallowing(result, flag) ==
    [status |-> "Success", body |-> result.value, requires_permission |-> flag]

\* What the server answers for a payload's result: its value, or an error
\* when the payload raised, with the permission requirement of the entry.
InvocationEnvelope(result, flag) ==
    [status |-> IF result.raised THEN "InvocationError" ELSE "Success",
     body |-> result.value,
     requires_permission |-> flag]

\* The input is validated against the entry's parameters and the payload runs.
Invoke(s) ==
    /\ requests[s].st = "PermissionAnnotated"
    /\ LET f == requests[s].found[1]
           entry == registry[f.index]
       IN  \E args \in IF requests[s].target.method = "resources/read"
                       THEN {f.bindings} ELSE Arguments :
              LET r == [requests[s] EXCEPT !.args = args] IN
              IF ~ValidInput(entry, args)
              THEN /\ Handled(s, Finish(r, "InvalidInput",
                                        Envelope("InvalidInput", "validation"),
                                        "InvalidInput"))
                   /\ UNCHANGED faulted
              ELSE LET result == Apply(entry.fn, args)
                       env == InvocationEnvelope(result, r.requires_permission[1])
                   IN  /\ Handled(s, Finish(r, env.status, env, "Invoked"))
                       /\ faulted' = (faulted \/ result.raised)

\* The response has been sent; the slot is free again.
Release(s) ==
    /\ requests[s].st = "Done"
    /\ Handled(s, IdleRequest)
    /\ UNCHANGED faulted

Step(s) ==
    \/ AuthBackend(s)
    \/ dispatch(s)
    \/ health_check(s)
    \/ RequireAuth(s)
    \/ ResolveTarget(s)
    \/ Annotate(s)
    \/ Invoke(s)

(* --------------------------- specification ---------------------------- *)

Init ==
    /\ ALLOWED_IPS \in AllowlistConfigs
    /\ issuer = "" /\ audience = ""
    /\ pc = 1 /\ registry = <<>> /\ routes = {} /\ gate = None
    /\ requests = [s \in Slots |-> IdleRequest]
    /\ faulted = FALSE
    /\ now = 2 /\ advances = 0 /\ token = None /\ verdict = None

Next ==
    \/ RegisterTool
    \/ RegisterResource
    \/ RegisterPrompt
    \/ RegisterRoute
    \/ http_app
    \/ \E s \in Slots : Receive(s)
    \/ \E s \in Slots : Step(s)
    \/ \E s \in Slots : Release(s)

Spec == Init /\ [][Next]_vars

\* Every handler of a request in flight runs to its end: the event loop
\* keeps scheduling it and the payloads return or raise.
FairSpec == Spec /\ \A s \in Slots : WF_vars(Step(s))

(* ------------------- token generator and verifier --------------------- *)

PipelineUnchanged == UNCHANGED <<pc, registry, routes, gate, requests, faulted>>

\* generate_token.py run at the current day.
GenerateToken ==
    /\ token' = Some(GeneratedToken(now, issuer, audience))
    /\ verdict' = None
    /\ UNCHANGED <<now, advances>>
    /\ ConfigUnchanged /\ PipelineUnchanged

\* Somebody else encodes a credential of their own making.
Forge ==
    /\ \E alg \in Algorithms, key \in {JwtSecret, OtherKey},
          exp \in {now - 1, now, now + 1},
          iss \in {Absent, "intric"}, aud \in {Absent, "mcp"} :
          token' = Some(Encode([sub |-> "test-user", iat |-> now, exp |-> exp,
                                iss |-> iss, aud |-> aud], key, alg))
    /\ verdict' = None
    /\ UNCHANGED <<now, advances>>
    /\ ConfigUnchanged /\ PipelineUnchanged

\* The expiry of a signed credential is moved a lifetime on, its signature kept.
Tamper ==
    /\ ~IsNone(token)
    /\ token[1].sig.msg = token[1].payload
    /\ token' = Some([token[1] EXCEPT !.payload.exp = @ + TokenLifetimeDays])
    /\ verdict' = None
    /\ UNCHANGED <<now, advances>>
    /\ ConfigUnchanged /\ PipelineUnchanged

Advance ==
    /\ advances < MaxAdvances
    /\ \E d \in AdvanceSteps : now' = now + d
    /\ advances' = advances + 1
    /\ UNCHANGED <<token, verdict>>
    /\ ConfigUnchanged /\ PipelineUnchanged

\* The server verifies the credential at the current day.
VerifyToken ==
    /\ ~IsNone(token)
    /\ verdict' = Some([at |-> now, result |-> verify_token(token[1], now)])
    /\ UNCHANGED <<now, advances, token>>
    /\ ConfigUnchanged /\ PipelineUnchanged

TokenInit ==
    /\ ALLOWED_IPS = {Wildcard}
    /\ issuer \in IssuerConfigs /\ audience \in AudienceConfigs
    /\ pc = 1 /\ registry = <<>> /\ routes = {} /\ gate = None
    /\ requests = [s \in Slots |-> IdleRequest]
    /\ faulted = FALSE
    /\ now = 2 /\ advances = 0 /\ token = None /\ verdict = None

TokenNext ==
    \/ GenerateToken
    \/ Forge
    \/ Tamper
    \/ Advance
    \/ VerifyToken

TokenSpec == TokenInit /\ [][TokenNext]_vars

(* ============================ properties ============================== *)

Visited(r, stage) == \E i \in DOMAIN r.trace : r.trace[i] = stage

\* The admission rule in terms of the configuration alone.
OriginAdmitted(client) ==
    \/ Wildcard \in ALLOWED_IPS
    \/ ~IsNone(client) /\ client[1].host \in ALLOWED_IPS

PayloadOutcomes == {"Success", "NotFound", "InvalidInput", "InvocationError"}

\* C1: a request whose origin the allowlist does not admit ends in Forbidden
\* and the verifier is never invoked for it.
C1_GateBeforeVerifier ==
    \A s \in Slots :
        LET r == requests[s] IN
        (r.gated /\ ~OriginAdmitted(r.client)) =>
            /\ r.outcome = "Forbidden"
            /\ ~Visited(r, "VerifierInvoked")

\* C2: the gate admits a request exactly when the allowlist holds the wildcard
\* or the origin is present and a member of the allowlist; a request without
\* a client address is rejected without the wildcard and admitted with it.
C2_AdmitIff ==
    \A s \in Slots :
        LET r == requests[s] IN
        r.gated =>
            /\ Visited(r, "NetworkChecked") <=> OriginAdmitted(r.client)
            /\ (r.outcome = "Forbidden") <=> ~OriginAdmitted(r.client)
            /\ IsNone(r.client) =>
                  (Visited(r, "NetworkChecked") <=> Wildcard \in ALLOWED_IPS)

C2_Witness ==
    \E s \in Slots :
        /\ requests[s].gated /\ IsNone(requests[s].client)
        /\ Wildcard \in ALLOWED_IPS /\ "10.0.0.1" \in ALLOWED_IPS
        /\ Visited(requests[s], "NetworkChecked")

\* C3: a finished GET /health request has answered "OK", whatever its origin and
\* credential.
C3_HealthAlwaysOK ==
    \A s \in Slots :
        (requests[s].route = "/health" /\ requests[s].st = "Done") =>
            requests[s].outcome = "OK"

\* C8: the rejection of the gate carries status 403, the tag "Forbidden" and
\* the rejected origin (null without a client) and nothing else; what it
\* carries is no member of the allowlist.
C8_RejectionBody ==
    \A s \in Slots :
        LET r == requests[s] IN
        r.outcome = "Forbidden" =>
            /\ DOMAIN r.response[1] = {"status_code", "content"}
            /\ r.response[1].status_code = 403
            /\ DOMAIN r.response[1].content = {"error", "your_ip"}
            /\ r.response[1].content.error = "Forbidden"
            /\ r.response[1].content.your_ip =
                  (IF IsNone(r.client) THEN None ELSE Some(r.client[1].host))
            /\ \A i \in DOMAIN r.response[1].content.your_ip :
                  r.response[1].content.your_ip[i] \notin ALLOWED_IPS

C8_Witness ==
    \E s \in Slots :
        /\ requests[s].outcome = "Forbidden"
        /\ requests[s].client = Some([host |-> "10.0.0.2"])
        /\ requests[s].response[1].content.your_ip = Some("10.0.0.2")

\* C4: a request whose credential names another algorithm than the pinned
\* one is never authenticated, also when its signature is right for the
\* algorithm it names; it reaches neither resolution nor invocation.
C4_AlgorithmPinned ==
    \A s \in Slots :
        LET r == requests[s] IN
        (~IsNone(r.cred) /\ r.cred[1].header.alg # "HS256") =>
            /\ IsNone(r.user)
            /\ r.st \notin {"Authenticated", "Resolved", "PermissionAnnotated"}
            /\ r.outcome \notin PayloadOutcomes
            /\ ~Visited(r, "Resolved") /\ ~Visited(r, "Invoked")

C4_Witness ==
    \E s \in Slots :
        LET r == requests[s] IN
        /\ ~IsNone(r.cred)
        /\ r.cred[1].header.alg = "HS512"
        /\ r.cred[1].sig = Sign("HS512", JwtSecret, r.cred[1].payload)
        /\ r.cred[1].payload.exp > now
        /\ r.outcome = "Unauthorized"

C5_FreshAccepted ==
    /\ ~IsNone(verdict) /\ ~IsNone(token)
    /\ token[1] = GeneratedToken(token[1].payload.iat, issuer, audience)
    /\ verdict[1].at = token[1].payload.exp
    /\ ~IsNone(verdict[1].result)

Annotated(r) == ~IsNone(r.requires_permission)

TemplateFits(pattern, uri) ==
    /\ pattern.scheme = uri.scheme
    /\ Len(pattern.path) = Len(uri.path)
    /\ \A i \in 1..Len(pattern.path) :
          \/ pattern.path[i].ph /\ uri.path[i] # ""
          \/ ~pattern.path[i].ph /\ pattern.path[i].text = uri.path[i]

Placeholders(pattern) == Cardinality({ i \in DOMAIN pattern.path : pattern.path[i].ph })

FittingTemplates(uri) ==
    { i \in DOMAIN registry :
        registry[i].kind = "ResourceTemplate" /\ TemplateFits(registry[i].uri[1], uri) }

WasResolved(r) == Visited(r, "Resolved") \/ r.outcome = "NotFound"

C7_TwoTemplatesFit ==
    \E s \in Slots :
        /\ WasResolved(requests[s])
        /\ requests[s].target.method = "resources/read"
        /\ Cardinality(FittingTemplates(requests[s].target.uri)) > 1

TerminalOutcomes ==
    {"Success", "Forbidden", "Unauthorized", "NotFound", "InvalidInput", "InvocationError"}

DividesByZero(r) ==
    /\ Visited(r, "Invoked")
    /\ r.target = ToolCall("divide_two_numbers")
    /\ r.args["b"].val = 0

\* A payload that raises ends its request in InvocationError, and only such a
\* payload does.
RaiseIsInvocationError ==
    \A s \in Slots :
        LET r == requests[s] IN
        /\ DividesByZero(r) =>
              /\ r.st = "Done" /\ r.outcome = "InvocationError"
              /\ r.response[1].status = "InvocationError"
        /\ r.outcome = "InvocationError" => DividesByZero(r)

\* Once the application serves, no step changes the registry, the routes, the
\* gate or the configuration.
ServingChangesNothing ==
    Serving => /\ registry' = registry /\ routes' = routes /\ gate' = gate
               /\ ALLOWED_IPS' = ALLOWED_IPS /\ issuer' = issuer
               /\ audience' = audience /\ pc' = pc

\* C9: a payload that raises (divide_two_numbers on a zero divisor) ends its
\* request in InvocationError; the failure changes neither registry nor
\* configuration; and every request in flight after a failure still reaches
\* a terminal outcome.
C9_FailureContained ==
    /\ []RaiseIsInvocationError
    /\ [][ServingChangesNothing]_vars
    /\ \A s \in Slots :
          (faulted /\ requests[s].st # "Idle")
              ~> (requests[s].st = "Done"
                    /\ requests[s].outcome \in TerminalOutcomes \cup {"OK"})

C9_Witness ==
    /\ faulted
    /\ \E s \in Slots :
          /\ requests[s].outcome = "Success"
          /\ requests[s].target = ToolCall("divide_two_numbers")
          /\ requests[s].response[1].body = [num |-> 4, den |-> 2]

Before(r, first, second) ==
    \A i \in DOMAIN r.trace :
        r.trace[i] = second => \E j \in 1..(i - 1) : r.trace[j] = first

\* C10: the stages of a request follow one another in the order Received,
\* NetworkChecked, Authenticated (the verifier), Resolved, PermissionAnnotated,
\* Invoked; a finished request has one of the six outcomes; a payload is invoked
\* only after admission, authentication and resolution; a request the gate
\* rejected has entered no later stage.
C10_StageOrder ==
    \A s \in Slots :
        LET r == requests[s] IN
        /\ Before(r, "Received", "NetworkChecked")
        /\ Before(r, "NetworkChecked", "VerifierInvoked")
        /\ Before(r, "NetworkChecked", "Authenticated")
        /\ Before(r, "Authenticated", "Resolved")
        /\ Before(r, "Resolved", "PermissionAnnotated")
        /\ Before(r, "PermissionAnnotated", "Invoked")
        /\ (r.st = "Done" /\ r.route = "/mcp") => r.outcome \in TerminalOutcomes
        /\ r.outcome = "Forbidden" =>
              \A i \in DOMAIN r.trace :
                  r.trace[i] \in {"Received", "NetworkChecked", "Forbidden"}

\* C10 without the verifier's place: rejections and the later stages keep the
\* order, and the verifier has accepted every request that is resolved.
C10_EnforcementOrder ==
    \A s \in Slots :
        LET r == requests[s] IN
        /\ Before(r, "Received", "NetworkChecked")
        /\ Before(r, "NetworkChecked", "Authenticated")
        /\ Before(r, "NetworkChecked", "Unauthorized")
        /\ Before(r, "Authenticated", "Resolved")
        /\ Before(r, "Authenticated", "NotFound")
        /\ Before(r, "Resolved", "PermissionAnnotated")
        /\ Before(r, "PermissionAnnotated", "Invoked")
        /\ Before(r, "PermissionAnnotated", "InvalidInput")
        /\ Visited(r, "Authenticated") =>
              /\ ~IsNone(r.user) /\ OriginAdmitted(r.client)
              /\ r.cred[1].header.alg = "HS256"
        /\ (r.st = "Done" /\ r.route = "/mcp") => r.outcome \in TerminalOutcomes
        /\ r.st = "Done" <=> r.outcome # ""

\* C10, progress: every request in flight reaches a terminal outcome.
C10_EveryRequestEnds ==
    \A s \in Slots : (requests[s].st # "Idle") ~> (requests[s].st = "Done")

====
